---- MODULE Spec2Model ----
(***************************************************************************)
(* A model of the Bundler class of scss-bundle (src/src/bundler.ts).        *)
(*                                                                         *)
(* Text is modelled as a sequence of tokens.  A token is a record          *)
(* [k, q, v]: k = "text" is an opaque chunk of stylesheet text (v names    *)
(* it), k = "import" is the text of one import directive  @import 'v';     *)
(* (q = "sq") or  @import "v";  (q = "dq") where v indexes RawNames,       *)
(* k = "slashes" is the two characters // written directly before the      *)
(* next token, k = "nfopen" / "nfclose" are the two halves of the          *)
(* IMPORTED FILE NOT FOUND marker.                                         *)
(*                                                                         *)
(* A path is a sequence of segments, a segment a sequence of name tokens;  *)
(* FILE_EXTENSION is one name token.                                       *)
(***************************************************************************)
EXTENDS Integers, Sequences, FiniteSets, TLC

\* ------------------------------------------------------------------------
\* Bounds
\* ------------------------------------------------------------------------
MaxEntries == 2

\* ------------------------------------------------------------------------
\* Paths (node's path module, on segment sequences)
\* ------------------------------------------------------------------------
FILE_EXTENSION == ".scss"

RECURSIVE Normalize(_, _)
Normalize(segs, acc) ==
    IF segs = <<>> THEN acc
    ELSE LET s == Head(segs) IN
         IF s = <<"..">>
         THEN Normalize(Tail(segs),
                        IF acc = <<>> THEN acc ELSE SubSeq(acc, 1, Len(acc) - 1))
         ELSE IF s = <<".">>
         THEN Normalize(Tail(segs), acc)
         ELSE Normalize(Tail(segs), Append(acc, s))

\* path.resolve(dir, name): name is [abs, segs]; dir is an absolute path
PathResolve(dir, name) ==
    IF name.abs THEN Normalize(name.segs, <<>>)
    ELSE Normalize(dir \o name.segs, <<>>)

PathDirname(p) == IF p = <<>> THEN p ELSE SubSeq(p, 1, Len(p) - 1)

PathBasename(p) == IF p = <<>> THEN <<>> ELSE p[Len(p)]

PathJoin(dir, base) == Append(dir, base)

\* importName.indexOf(FILE_EXTENSION) === -1
ExtensionAbsent(name) ==
    \A i \in 1..Len(name.segs) :
        \A j \in 1..Len(name.segs[i]) : name.segs[i][j] # FILE_EXTENSION

\* importName += FILE_EXTENSION
AppendExtension(name) ==
    IF name.segs = <<>>
    THEN [name EXCEPT !.segs = << <<FILE_EXTENSION>> >>]
    ELSE [name EXCEPT !.segs[Len(name.segs)] = Append(@, FILE_EXTENSION)]

ImportName(raw) == IF ExtensionAbsent(raw) THEN AppendExtension(raw) ELSE raw

UnderscoredFilePath(fullPath) ==
    PathJoin(PathDirname(fullPath), <<"_">> \o PathBasename(fullPath))

\* the body of the map callback of Helpers.getAllMatches(...): the ImportData
\* of one directive, given the set of paths fs.access succeeds on
ResolveImport(dirname, raw, accessible) ==
    LET fullPath == PathResolve(dirname, ImportName(raw))
        under    == UnderscoredFilePath(fullPath)
    IN  IF fullPath \in accessible THEN [fullPath |-> fullPath, found |-> TRUE]
        ELSE IF under \in accessible THEN [fullPath |-> under, found |-> TRUE]
        ELSE [fullPath |-> fullPath, found |-> FALSE]

\* ------------------------------------------------------------------------
\* Text
\* ------------------------------------------------------------------------
Txt(v) == [k |-> "text", q |-> "", v |-> v]

Imp(q, v) == [k |-> "import", q |-> q, v |-> v]

Slashes == [k |-> "slashes", q |-> "", v |-> 0]

NfOpen == [k |-> "nfopen", q |-> "", v |-> 0]

NfClose == [k |-> "nfclose", q |-> "", v |-> 0]

\* a variant of StripCommented that removes nothing
StripNothing(c) == c

\* content.replace(COMMENTED_IMPORT_PATTERN, ""): the pattern is // directly
\* followed by a single-quoted directive
RECURSIVE StripCommented(_)
StripCommented(c) ==
    IF Len(c) < 2 THEN c
    ELSE IF c[1] = Slashes /\ c[2].k = "import" /\ c[2].q = "sq"
    THEN StripCommented(SubSeq(c, 3, Len(c)))
    ELSE <<c[1]>> \o StripCommented(Tail(c))

\* Helpers.getAllMatches(content, IMPORT_PATTERN): the directives in order
RECURSIVE GetAllMatches(_)
GetAllMatches(c) ==
    IF c = <<>> THEN <<>>
    ELSE IF Head(c).k = "import" THEN <<Head(c)>> \o GetAllMatches(Tail(c))
    ELSE GetAllMatches(Tail(c))

\* content.replace(importString, contentToReplace) with a string pattern:
\* the first occurrence only, and the content unchanged when there is none
FirstIndexOf(c, tok) ==
    IF \E i \in 1..Len(c) : c[i] = tok
    THEN CHOOSE i \in 1..Len(c) : c[i] = tok /\ \A j \in 1..(i - 1) : c[j] # tok
    ELSE 0

ReplaceFirst(c, tok, repl) ==
    LET i == FirstIndexOf(c, tok) IN
    IF i = 0 THEN c
    ELSE SubSeq(c, 1, i - 1) \o repl \o SubSeq(c, i + 1, Len(c))

NotFoundMarker(importString) == <<NfOpen, importString, NfClose>>

\* ------------------------------------------------------------------------
\* BundleResult
\* ------------------------------------------------------------------------
\* optional fields are sequences of length 0 (absent) or 1 (present);
\* deduped is FALSE when the property is absent
NotFoundResult(filePath) ==
    [filePath |-> filePath, found |-> FALSE, deduped |-> FALSE,
     bundledContent |-> <<>>, imports |-> <<>>]

CachedResult(filePath, childImports) ==
    [filePath |-> filePath, found |-> TRUE, deduped |-> FALSE,
     bundledContent |-> <<>>, imports |-> childImports]

BundledResult(filePath, content, currentImports) ==
    [filePath |-> filePath, found |-> TRUE, deduped |-> FALSE,
     bundledContent |-> <<content>>, imports |-> <<currentImports>>]

\* ------------------------------------------------------------------------
\* Inputs: file systems, entry lists, dedupe glob lists
\* ------------------------------------------------------------------------
D == << <<"d">> >>

MainPath == Append(D, <<"main", FILE_EXTENSION>>)

APath == Append(D, <<"a", FILE_EXTENSION>>)

UnderAPath == Append(D, <<"_", "a", FILE_EXTENSION>>)

BPath == Append(D, <<"b", FILE_EXTENSION>>)

UnderBPath == Append(D, <<"_", "b", FILE_EXTENSION>>)

MPath == Append(D, <<"m", FILE_EXTENSION>>)

XPath == Append(D, <<"x", FILE_EXTENSION>>)

\* the raw paths written in directives: 'a', 'b', 'm', 'main', 'b.scss'
RawNames ==
    << [abs |-> FALSE, segs |-> << <<"a">> >>],
       [abs |-> FALSE, segs |-> << <<"b">> >>],
       [abs |-> FALSE, segs |-> << <<"m">> >>],
       [abs |-> FALSE, segs |-> << <<"main">> >>],
       [abs |-> FALSE, segs |-> << <<".">>, <<"b", FILE_EXTENSION>> >>] >>

IA == Imp("sq", 1)

IB == Imp("sq", 2)

IM == Imp("sq", 3)

IMain == Imp("sq", 4)

IB2 == Imp("dq", 5)

IAdq == Imp("dq", 1)

Readable(c) == [readable |-> TRUE, content |-> c]

Unreadable == [readable |-> FALSE, content |-> <<>>]

\* a file system: existing path -> [readable, content]
Worlds ==
    << \* main imports a twice
       (MainPath :> Readable(<<Txt(1), IA, Txt(2), IA, Txt(3)>>)) @@
       (APath :> Readable(<<Txt(4)>>)),
       \* main imports a and b, a imports b
       (MainPath :> Readable(<<Txt(1), IA, IB>>)) @@
       (APath :> Readable(<<Txt(2), IB2>>)) @@
       (BPath :> Readable(<<Txt(3)>>)),
       \* main and a import each other
       (MainPath :> Readable(<<Txt(1), IA>>)) @@
       (APath :> Readable(<<Txt(2), IMain, IMain>>)),
       \* a missing target, imported twice
       (MainPath :> Readable(<<IM, Txt(1), IM>>)),
       \* a missing target after a repeated import
       (MainPath :> Readable(<<IA, IA, IM, Txt(1)>>)) @@
       (APath :> Readable(<<Txt(2), IM>>)),
       \* partials: only _a.scss, both b.scss and _b.scss
       (MainPath :> Readable(<<IA, IB>>)) @@
       (UnderAPath :> Readable(<<Txt(2)>>)) @@
       (BPath :> Readable(<<Txt(3)>>)) @@
       (UnderBPath :> Readable(<<Txt(4)>>)),
       \* a target that exists and cannot be read
       (MainPath :> Readable(<<Txt(1), IB, IA>>)) @@
       (APath :> Unreadable) @@
       (BPath :> Readable(<<Txt(3)>>)),
       \* nothing but a commented-out directive
       (MainPath :> Readable(<<Txt(1), Slashes, IA, Txt(2)>>)) @@
       (APath :> Readable(<<Slashes, IB, Txt(2)>>)) @@
       (BPath :> Readable(<<Txt(3)>>)),
       \* commented directives
       (MainPath :> Readable(<<Slashes, IA, Slashes, IAdq, Txt(1), IB2>>)) @@
       (APath :> Readable(<<Txt(2)>>)) @@
       (BPath :> Readable(<<Txt(3)>>)) >>

EntryPaths == {MainPath, APath, XPath}

EntryLists == UNION {[1..n -> EntryPaths] : n \in 1..MaxEntries}

\* a glob pattern is named by what it matches: "all" every file of D,
\* "a" and "b" the files a.scss / b.scss of D
GlobLists == {<<>>, <<"all">>, <<"b">>, <<"a">>}

GlobMatches(pattern, fsys) ==
    CASE pattern = "all" -> DOMAIN fsys
      [] pattern = "a"   -> DOMAIN fsys \cap {APath}
      [] pattern = "b"   -> DOMAIN fsys \cap {BPath}
      [] OTHER           -> {}

\* globs(globsList, cb) followed by files.map(path.resolve)
ExpandGlobs(globsList, fsys) ==
    {Normalize(f, <<>>) : f \in UNION {GlobMatches(globsList[i], fsys) : i \in 1..Len(globsList)}}

\* ------------------------------------------------------------------------
\* State
\* ------------------------------------------------------------------------
VARIABLES
    fs,             \* the file system
    files,          \* BundleAll's files argument
    dedupeGlobs,    \* BundleAll's dedupeGlobs argument
    fileRegistry,   \* Bundler.fileRegistry: path -> content, partial
    usedImports,    \* Bundler.usedImports: path -> count, partial
    importsByFile,  \* Bundler.importsByFile: path -> child results, partial
    pc,             \* per Bundle call: "access", "load", "bundle", "done"
    load,           \* per Bundle call: state of the two promises of Promise.all
    dedupeFiles,    \* per Bundle call: the resolved value of dedupeFilesPromise
    stack,          \* per Bundle call: the activations of bundle(), innermost last
    results,        \* Promise.all's result array: <<>> or <<BundleResult>> per index
    reads,          \* history: fs.readFile calls per path
    bundleCalls,    \* history: calls of bundle() per resolved path
    globCalls,      \* history: calls of globs()
    hist,           \* history: one record per completed iteration of the import loop
    rv              \* one import resolution on its own: [dirname, raw, accessible, out]

vars == <<fs, files, dedupeGlobs, fileRegistry, usedImports, importsByFile,
          pc, load, dedupeFiles, stack, results, reads, bundleCalls, globCalls, hist, rv>>

Tasks == 1..Len(files)

\* undefined++ is NaN, NaN++ is NaN, and NaN > 1 is false
NaN == -1

Put(f, key, val) == [x \in DOMAIN f \cup {key} |-> IF x = key THEN val ELSE f[x]]

Bump(f, key) == Put(f, key, IF key \in DOMAIN f THEN f[key] + 1 ELSE 1)

Count(f, key) == IF key \in DOMAIN f THEN f[key] ELSE 0

Top(stk) == stk[Len(stk)]

Pop(stk) == SubSeq(stk, 1, Len(stk) - 1)

SetTop(stk, f) == [stk EXCEPT ![Len(stk)] = f]

\* ------------------------------------------------------------------------
\* Bundler.bundle
\* ------------------------------------------------------------------------
\* a variant of Enter without the seeding of lines 80-82
EnterNoSeed(s, file, rawContent) ==
    LET content  == StripCommented(rawContent)
        filePath == Normalize(file, <<>>)
        matches  == GetAllMatches(content)
        frame    == [filePath |-> filePath, content |-> content,
                     matches |-> matches, imports |-> <<>>, i |-> 1,
                     currentImports |-> <<>>,
                     st |-> IF matches = <<>> THEN "loop" ELSE "resolving"]
    IN  [s EXCEPT !.stack = Append(@, frame),
                  !.calls = Bump(@, filePath)]

\* lines 72-85: the synchronous start of bundle(filePath, content, dedupeFiles)
Enter(s, file, rawContent) ==
    LET content  == StripCommented(rawContent)
        filePath == Normalize(file, <<>>)
        matches  == GetAllMatches(content)
        frame    == [filePath |-> filePath, content |-> content,
                     matches |-> matches, imports |-> <<>>, i |-> 1,
                     currentImports |-> <<>>,
                     st |-> IF matches = <<>> THEN "loop" ELSE "resolving"]
    IN  [s EXCEPT !.stack = Append(@, frame),
                  !.calls = Bump(@, filePath),
                  !.reg = IF filePath \in DOMAIN @ THEN @ ELSE Put(@, filePath, content)]

\* lines 85-121: the ImportData of every match
ResolveAll(frame, accessible) ==
    [j \in 1..Len(frame.matches) |->
        LET r == ResolveImport(PathDirname(frame.filePath),
                               RawNames[frame.matches[j].v], accessible)
        IN  [importString |-> frame.matches[j], fullPath |-> r.fullPath,
             found |-> r.found]]

\* lines 165-167: this.usedImports[imp.fullPath]++
Increment(used, p) ==
    IF p \notin DOMAIN used THEN Put(used, p, NaN)
    ELSE IF used[p] = NaN THEN used
    ELSE Put(used, p, used[p] + 1)

\* lines 156-158
SetIfAbsent(used, p) == IF p \in DOMAIN used THEN used ELSE Put(used, p, 1)

\* a variant of ShouldDedupe that elides from the first use on
ShouldDedupeAtFirstUse(df, used, p) ==
    /\ df # {}
    /\ p \in df
    /\ p \in DOMAIN used
    /\ used[p] >= 1

\* lines 193-198: the condition of the dedupe branch
ShouldDedupe(df, used, p) ==
    /\ df # {}
    /\ p \in df
    /\ p \in DOMAIN used
    /\ used[p] > 1

\* line 200: what the dedupe branch does to the working content
DedupedContent(content) == <<>>

\* lines 183-210: the end of one iteration, currentImport being set
AfterImport(s, t, df, currentImport, branch) ==
    LET f   == Top(s.stack)
        imp == f.imports[f.i]
        contentToReplace ==
            IF imp.fullPath \in DOMAIN s.reg THEN s.reg[imp.fullPath]
            ELSE NotFoundMarker(imp.importString)
        dd  == ShouldDedupe(df, s.used, imp.fullPath)
        c1  == IF dd THEN DedupedContent(f.content) ELSE f.content
        c2  == ReplaceFirst(c1, imp.importString, contentToReplace)
        node == [currentImport EXCEPT !.deduped = dd \/ @]
        ev  == [t |-> t, file |-> f.filePath, idx |-> f.i, importString |-> imp.importString,
                target |-> imp.fullPath, found |-> imp.found, branch |-> branch,
                node |-> node, before |-> f.content, after |-> c2,
                repl |-> contentToReplace,
                active |-> {s.stack[k].filePath : k \in 1..Len(s.stack)}]
    IN  [s EXCEPT !.stack = SetTop(@, [f EXCEPT !.content = c2, !.i = @ + 1,
                                                !.currentImports = Append(@, node),
                                                !.st = "loop"]),
                  !.hist = Append(@, ev)]

\* lines 213-221, and lines 150-161 of the caller when there is one
Finish(s, t, df) ==
    LET f    == Top(s.stack)
        node == BundledResult(f.filePath, f.content, f.currentImports)
        s1   == [s EXCEPT !.stack = Pop(@),
                          !.ibf = Put(@, f.filePath, f.currentImports)]
    IN  IF s1.stack = <<>> THEN [s1 EXCEPT !.out = <<node>>]
        ELSE LET g   == Top(s1.stack)
                 imp == g.imports[g.i]
                 s2  == [s1 EXCEPT !.reg = Put(@, imp.fullPath, node.bundledContent[1]),
                                   !.used = SetIfAbsent(@, imp.fullPath)]
             IN  AfterImport(s2, t, df, node, "fresh")

\* a variant of StepLoop that counts a target before looking at imp.found
StepLoopCountingFirst(s, t, df) ==
    LET f == Top(s.stack) IN
    IF f.i > Len(f.imports) THEN Finish(s, t, df)
    ELSE LET imp == f.imports[f.i] IN
         IF ~imp.found
         THEN AfterImport([s EXCEPT !.used = Increment(@, imp.fullPath)], t, df,
                          NotFoundResult(imp.fullPath), "notfound")
         ELSE IF imp.fullPath \notin DOMAIN s.reg
         THEN [s EXCEPT !.stack = SetTop(@, [f EXCEPT !.st = "reading"]),
                        !.reads = Bump(@, imp.fullPath)]
         ELSE LET s1 == [s EXCEPT !.used = Increment(@, imp.fullPath)]
                  childImports == IF imp.fullPath \in DOMAIN s.ibf
                                  THEN <<s.ibf[imp.fullPath]>> ELSE <<>>
              IN  AfterImport(s1, t, df, CachedResult(imp.fullPath, childImports), "cached")

\* a variant of StepLoop that reads a found target without the registry test
StepLoopAlwaysReading(s, t, df) ==
    LET f == Top(s.stack) IN
    IF f.i > Len(f.imports) THEN Finish(s, t, df)
    ELSE LET imp == f.imports[f.i] IN
         IF ~imp.found
         THEN AfterImport(s, t, df, NotFoundResult(imp.fullPath), "notfound")
         ELSE [s EXCEPT !.stack = SetTop(@, [f EXCEPT !.st = "reading"]),
                        !.reads = Bump(@, imp.fullPath)]

\* lines 132-181: one iteration of the loop up to its first await
StepLoop(s, t, df) ==
    LET f == Top(s.stack) IN
    IF f.i > Len(f.imports) THEN Finish(s, t, df)
    ELSE LET imp == f.imports[f.i] IN
         IF ~imp.found
         THEN AfterImport(s, t, df, NotFoundResult(imp.fullPath), "notfound")
         ELSE IF imp.fullPath \notin DOMAIN s.reg
         THEN [s EXCEPT !.stack = SetTop(@, [f EXCEPT !.st = "reading"]),
                        !.reads = Bump(@, imp.fullPath)]
         ELSE LET s1 == [s EXCEPT !.used = Increment(@, imp.fullPath)]
                  childImports == IF imp.fullPath \in DOMAIN s.ibf
                                  THEN <<s.ibf[imp.fullPath]>> ELSE <<>>
              IN  AfterImport(s1, t, df, CachedResult(imp.fullPath, childImports), "cached")

\* the code of bundle() runs without suspension until it awaits a file
\* system operation
RECURSIVE Run(_, _, _)
Run(s, t, df) ==
    IF s.out # <<>> \/ s.stack = <<>> \/ Top(s.stack).st # "loop" THEN s
    ELSE Run(StepLoop(s, t, df), t, df)

\* ------------------------------------------------------------------------
\* Bundler.BundleAll / Bundler.Bundle
\* ------------------------------------------------------------------------
NoResolution == [dirname |-> <<>>, raw |-> RawNames[1], accessible |-> {}, out |-> <<>>]

Init ==
    /\ fs \in {Worlds[w] : w \in 1..Len(Worlds)}
    /\ files \in EntryLists
    /\ dedupeGlobs \in GlobLists
    /\ fileRegistry = <<>>
    /\ usedImports = <<>>
    /\ importsByFile = <<>>
    /\ pc = [t \in 1..Len(files) |-> "access"]
    /\ load = [t \in 1..Len(files) |-> [read |-> "none", glob |-> "none"]]
    /\ dedupeFiles = [t \in 1..Len(files) |-> {}]
    /\ stack = [t \in 1..Len(files) |-> <<>>]
    /\ results = [t \in 1..Len(files) |-> <<>>]
    /\ reads = <<>>
    /\ bundleCalls = <<>>
    /\ globCalls = 0
    /\ hist = <<>>
    /\ rv = NoResolution

\* a variant of StoreResult that fills the array in completion order
StoreResultInCompletionOrder(res, t, r) ==
    LET free == {i \in DOMAIN res : res[i] = <<>>}
        k    == IF free = {} THEN t ELSE CHOOSE i \in free : \A j \in free : i <= j
    IN  [res EXCEPT ![k] = <<r>>]

\* line 46: Promise.all stores the value of the i-th promise at index i
StoreResult(res, t, r) == [res EXCEPT ![t] = <<r>>]

\* a variant of GlobCallsAfter that expands once per Bundler
GlobCallsOnce(n, globsList) == IF globsList = <<>> \/ n >= 1 THEN n ELSE n + 1

\* line 53 and lines 225-230: globs() is called unless the list is empty
GlobCallsAfter(n, globsList) == IF globsList = <<>> THEN n ELSE n + 1

\* the state bundle() works on
Ctx(t) ==
    [stack |-> stack[t], reg |-> fileRegistry, used |-> usedImports,
     ibf |-> importsByFile, reads |-> reads, calls |-> bundleCalls,
     hist |-> hist, out |-> <<>>]

\* bundle() has run up to its next await, or has returned to Bundle (line 58)
Commit(t, s) ==
    /\ fileRegistry' = s.reg
    /\ usedImports' = s.used
    /\ importsByFile' = s.ibf
    /\ reads' = s.reads
    /\ bundleCalls' = s.calls
    /\ hist' = s.hist
    /\ stack' = [stack EXCEPT ![t] = s.stack]
    /\ IF s.out # <<>>
       THEN /\ results' = StoreResult(results, t, s.out[1])
            /\ pc' = [pc EXCEPT ![t] = "done"]
       ELSE /\ results' = results
            /\ pc' = [pc EXCEPT ![t] = "bundle"]

\* a variant of Caught without the catch block: the rejection reaches the caller
CaughtRethrow(t) ==
    /\ results' = results
    /\ pc' = [pc EXCEPT ![t] = "done"]
    /\ stack' = [stack EXCEPT ![t] = <<>>]

\* lines 59-64: the catch block of Bundle
Caught(t) ==
    /\ results' = StoreResult(results, t, NotFoundResult(files[t]))
    /\ pc' = [pc EXCEPT ![t] = "done"]
    /\ stack' = [stack EXCEPT ![t] = <<>>]

\* line 58: both promises of line 56 are fulfilled
StartBundle(t, df) ==
    Commit(t, Run(Enter(Ctx(t), files[t], fs[files[t]].content), t, df))

\* line 51 completes; lines 52-56 start the read and the glob expansion
AccessDone(t) ==
    /\ pc[t] = "access"
    /\ IF files[t] \in DOMAIN fs
       THEN /\ pc' = [pc EXCEPT ![t] = "load"]
            /\ load' = [load EXCEPT ![t] =
                          [read |-> "pending",
                           glob |-> IF dedupeGlobs = <<>> THEN "ok" ELSE "pending"]]
            /\ reads' = Bump(reads, files[t])
            /\ globCalls' = GlobCallsAfter(globCalls, dedupeGlobs)
            /\ UNCHANGED <<results, stack>>
       ELSE /\ Caught(t)
            /\ UNCHANGED <<load, reads, globCalls>>
    /\ UNCHANGED <<fs, files, dedupeGlobs, fileRegistry, usedImports,
                   importsByFile, dedupeFiles, bundleCalls, hist>>

\* a variant of ReadEntryDone that does not wait for dedupeFilesPromise
ReadEntryDoneNoJoin(t) ==
    /\ pc[t] = "load"
    /\ load[t].read = "pending"
    /\ IF fs[files[t]].readable
       THEN /\ load' = [load EXCEPT ![t].read = "ok"]
            /\ StartBundle(t, dedupeFiles[t])
       ELSE /\ Caught(t)
            /\ UNCHANGED <<load, fileRegistry, usedImports, importsByFile,
                           reads, bundleCalls, hist>>
    /\ UNCHANGED <<fs, files, dedupeGlobs, dedupeFiles, globCalls>>

\* the fs.readFile of line 52 completes
ReadEntryDone(t) ==
    /\ pc[t] = "load"
    /\ load[t].read = "pending"
    /\ IF fs[files[t]].readable
       THEN /\ load' = [load EXCEPT ![t].read = "ok"]
            /\ IF load[t].glob = "ok"
               THEN StartBundle(t, dedupeFiles[t])
               ELSE UNCHANGED <<fileRegistry, usedImports, importsByFile, pc,
                                stack, results, reads, bundleCalls, hist>>
       ELSE /\ Caught(t)
            /\ UNCHANGED <<load, fileRegistry, usedImports, importsByFile,
                           reads, bundleCalls, hist>>
    /\ UNCHANGED <<fs, files, dedupeGlobs, dedupeFiles, globCalls>>

\* the callback of globs() runs (lines 230-241), with or without an error;
\* after reject(err) nothing the callback does can settle the promise again
GlobDone(t) ==
    /\ pc[t] = "load"
    /\ load[t].glob = "pending"
    /\ \E err \in BOOLEAN :
         IF err
         THEN /\ load' = [load EXCEPT ![t].glob = "rejected"]
              /\ Caught(t)
              /\ UNCHANGED <<dedupeFiles, fileRegistry, usedImports,
                             importsByFile, reads, bundleCalls, hist>>
         ELSE /\ load' = [load EXCEPT ![t].glob = "ok"]
              /\ dedupeFiles' = [dedupeFiles EXCEPT ![t] = ExpandGlobs(dedupeGlobs, fs)]
              /\ IF load[t].read = "ok"
                 THEN StartBundle(t, ExpandGlobs(dedupeGlobs, fs))
                 ELSE UNCHANGED <<fileRegistry, usedImports, importsByFile, pc,
                                  stack, results, reads, bundleCalls, hist>>
    /\ UNCHANGED <<fs, files, dedupeGlobs, globCalls>>

\* line 121: every fs.access of the imports of the innermost bundle() is done
ResolveDone(t) ==
    /\ pc[t] = "bundle"
    /\ stack[t] # <<>>
    /\ Top(stack[t]).st = "resolving"
    /\ LET f  == Top(stack[t])
           f1 == [f EXCEPT !.imports = ResolveAll(f, DOMAIN fs), !.st = "loop"]
           s  == [Ctx(t) EXCEPT !.stack = SetTop(@, f1)]
       IN  Commit(t, Run(s, t, dedupeFiles[t]))
    /\ UNCHANGED <<fs, files, dedupeGlobs, load, dedupeFiles, globCalls>>

\* the fs.readFile of line 147 completes
ReadImportDone(t) ==
    /\ pc[t] = "bundle"
    /\ stack[t] # <<>>
    /\ Top(stack[t]).st = "reading"
    /\ LET f   == Top(stack[t])
           imp == f.imports[f.i]
       IN  IF fs[imp.fullPath].readable
           THEN LET f1 == [f EXCEPT !.st = "bundling"]
                    s  == [Ctx(t) EXCEPT !.stack = SetTop(@, f1)]
                IN  Commit(t, Run(Enter(s, imp.fullPath, fs[imp.fullPath].content),
                                  t, dedupeFiles[t]))
           ELSE /\ Caught(t)
                /\ UNCHANGED <<fileRegistry, usedImports, importsByFile, reads, bundleCalls, hist>>
    /\ UNCHANGED <<fs, files, dedupeGlobs, load, dedupeFiles, globCalls>>

Next ==
    /\ \E t \in Tasks :
          \/ AccessDone(t)
          \/ ReadEntryDone(t)
          \/ GlobDone(t)
          \/ ResolveDone(t)
          \/ ReadImportDone(t)
    /\ UNCHANGED rv

Spec == Init /\ [][Next]_vars

\* ------------------------------------------------------------------------
\* Import resolution on its own (lines 85-118), for every raw path of
\* RawPool, every directory of Dirs and every set of accessible candidates
\* ------------------------------------------------------------------------
Dirs == {D, << <<"d">>, <<"sub">> >>}

RawPool ==
    { [abs |-> FALSE, segs |-> << <<"a">> >>],
      [abs |-> FALSE, segs |-> << <<"a", FILE_EXTENSION>> >>],
      [abs |-> FALSE, segs |-> << <<"_", "a">> >>],
      [abs |-> FALSE, segs |-> << <<"..">>, <<"a">> >>],
      [abs |-> FALSE, segs |-> << <<"lib">>, <<"a">> >>],
      [abs |-> TRUE,  segs |-> << <<"e">>, <<"a">> >>],
      [abs |-> FALSE, segs |-> << <<"a", FILE_EXTENSION, "bak">> >>],
      [abs |-> FALSE, segs |-> << <<"lib", FILE_EXTENSION>>, <<"a">> >>] }

\* the paths whose existence can matter to the resolution of raw from dir
Candidates(dir, raw) ==
    LET p1 == PathResolve(dir, raw)
        p2 == PathResolve(dir, AppendExtension(raw))
    IN  {p1, UnderscoredFilePath(p1), p2, UnderscoredFilePath(p2)}

InitResolve ==
    /\ \E dir \in Dirs, raw \in RawPool :
         \E acc \in SUBSET Candidates(dir, raw) :
            rv = [dirname |-> dir, raw |-> raw, accessible |-> acc, out |-> <<>>]
    /\ fs = <<>>
    /\ files = <<>>
    /\ dedupeGlobs = <<>>
    /\ fileRegistry = <<>>
    /\ usedImports = <<>>
    /\ importsByFile = <<>>
    /\ pc = <<>>
    /\ load = <<>>
    /\ dedupeFiles = <<>>
    /\ stack = <<>>
    /\ results = <<>>
    /\ reads = <<>>
    /\ bundleCalls = <<>>
    /\ globCalls = 0
    /\ hist = <<>>

Resolve ==
    /\ rv.out = <<>>
    /\ rv' = [rv EXCEPT !.out = <<ResolveImport(rv.dirname, rv.raw, rv.accessible)>>]
    /\ UNCHANGED <<fs, files, dedupeGlobs, fileRegistry, usedImports, importsByFile,
                   pc, load, dedupeFiles, stack, results, reads, bundleCalls, globCalls, hist>>

NextResolve == Resolve

SpecResolve == InitResolve /\ [][NextResolve]_vars

\* ------------------------------------------------------------------------
\* Properties
\* ------------------------------------------------------------------------
AllDone == files # <<>> /\ \A t \in Tasks : pc[t] = "done"

EntryFails(t) == files[t] \notin DOMAIN fs \/ ~fs[files[t]].readable

CanStep(t) ==
    \/ pc[t] = "access"
    \/ pc[t] = "load" /\ (load[t].read = "pending" \/ load[t].glob = "pending")
    \/ pc[t] = "bundle" /\ stack[t] # <<>> /\ Top(stack[t]).st \in {"resolving", "reading"}

Acted(t) == pc'[t] # pc[t] \/ load'[t] # load[t] \/ stack'[t] # stack[t]

ContainsSub(c, sub) ==
    \E i \in 0..(Len(c) - Len(sub)) : SubSeq(c, i + 1, i + Len(sub)) = sub

\* occurrences of a directive that are not the body of a not-found marker
BareCount(c, tok) ==
    Cardinality({i \in 1..Len(c) :
        /\ c[i] = tok
        /\ ~(i > 1 /\ i < Len(c) /\ c[i - 1] = NfOpen /\ c[i + 1] = NfClose)})

\* how many found import targets equal to hist[i].target the loop has
\* completed up to and including hist[i]
Occurrence(i) ==
    Cardinality({j \in 1..i : hist[j].found /\ hist[j].target = hist[i].target})

Encounters(p) ==
    Cardinality({j \in DOMAIN hist : hist[j].found /\ hist[j].target = p})

PlainCandidate(e) ==
    PathResolve(PathDirname(e.file), ImportName(RawNames[e.importString.v]))

\* C1: a Bundle call always ends with a BundleResult and is never stuck or
\* rejected; when its entry file cannot be accessed or read the result is
\* exactly {filePath: entry, found: false}, and no step of that call changes
\* the file registry, the usage counter or the child-import cache.
C1_EntryFailureIsContained ==
    /\ [](\A t \in Tasks :
            /\ pc[t] = "done" => Len(results[t]) = 1
            /\ pc[t] # "done" => CanStep(t)
            /\ (pc[t] = "done" /\ EntryFails(t)) =>
                   results[t] = <<NotFoundResult(files[t])>>)
    /\ [][\A t \in Tasks :
            (EntryFails(t) /\ Acted(t)) =>
                UNCHANGED <<fileRegistry, usedImports, importsByFile>>]_vars

C1_Witness ==
    \E t1, t2 \in Tasks :
        /\ EntryFails(t1)
        /\ pc[t1] = "done" /\ pc[t2] = "done"
        /\ results[t1] = <<NotFoundResult(files[t1])>>
        /\ results[t2][1].found
        /\ fileRegistry # <<>>

\* C2: every absolute path is read from the file system at most once in a
\* BundleAll run.
C2_ReadAtMostOnce == \A p \in DOMAIN reads : reads[p] <= 1

\* C3: when the entry file imports the same dedup-eligible file twice, the
\* second directive's node is marked deduped and the directive contributes
\* empty text while all other text of the entry (the first inlined copy
\* included) is preserved.
C3_SecondImportElidedOnly ==
    \A i, j \in DOMAIN hist :
        (/\ i < j
         /\ hist[i].t = hist[j].t
         /\ hist[i].file = files[hist[i].t] /\ hist[j].file = hist[i].file
         /\ hist[i].found /\ hist[j].found
         /\ hist[i].target = hist[j].target
         /\ hist[i].target \in dedupeFiles[hist[i].t])
        => /\ hist[j].node.deduped
           /\ hist[j].after = ReplaceFirst(hist[j].before, hist[j].importString, <<>>)

\* C4: for a path of the Dedup Set, the first occurrence as a found import
\* target is inlined and not marked deduped, and every later occurrence is
\* marked deduped and contributes no content.
C4_FirstInlinedLaterDeduped ==
    \A i \in DOMAIN hist :
        LET e == hist[i] IN
        (e.found /\ e.target \in dedupeFiles[e.t]) =>
            IF Occurrence(i) = 1
            THEN /\ ~e.node.deduped
                 /\ e.after = ReplaceFirst(e.before, e.importString, e.repl)
            ELSE /\ e.node.deduped
                 /\ (e.repl # <<>> /\ e.before # <<>>) =>
                        e.after # ReplaceFirst(e.before, e.importString, e.repl)

\* C5: a path that was a found import target at most once has no child node
\* marked deduped, and the content of the file that includes it is not reset:
\* its directive is replaced by the registry content.
C5_SingleUseNeverDeduped ==
    \A i \in DOMAIN hist :
        LET e == hist[i] IN
        (e.found /\ Encounters(e.target) <= 1) =>
            /\ ~e.node.deduped
            /\ e.after = ReplaceFirst(e.before, e.importString, e.repl)

C5_Witness ==
    /\ AllDone
    /\ \E i \in DOMAIN hist :
         /\ hist[i].found
         /\ hist[i].target \in dedupeFiles[hist[i].t]
         /\ Encounters(hist[i].target) = 1
         /\ ContainsSub(hist[i].after, hist[i].repl)
         /\ hist[i].repl # <<>>

\* C6: an import directive whose target is not found gets the child node
\* {filePath: plain candidate, found: false}, and the directive is replaced
\* in the including file's content by the not-found marker around its text.
C6_NotFoundMarkerInPlace ==
    \A i \in DOMAIN hist :
        LET e == hist[i] IN
        ~e.found =>
            /\ e.node = NotFoundResult(PlainCandidate(e))
            /\ ContainsSub(e.after, NotFoundMarker(e.importString))
            /\ BareCount(e.after, e.importString) = BareCount(e.before, e.importString) - 1

\* the resolution as the specification words it: the extension is a suffix
ExtensionSuffixAbsent(name) ==
    \/ name.segs = <<>>
    \/ LET last == name.segs[Len(name.segs)] IN
          last = <<>> \/ last[Len(last)] # FILE_EXTENSION

ResolutionAsSpecified(dir, raw, accessible) ==
    LET candidate == PathResolve(dir, IF ExtensionSuffixAbsent(raw)
                                      THEN AppendExtension(raw) ELSE raw)
        under     == Append(PathDirname(candidate), <<"_">> \o PathBasename(candidate))
    IN  IF candidate \in accessible THEN [fullPath |-> candidate, found |-> TRUE]
        ELSE IF under \in accessible THEN [fullPath |-> under, found |-> TRUE]
        ELSE [fullPath |-> candidate, found |-> FALSE]

\* C7: the resolution of a raw path: the candidate is the raw path with the
\* extension appended when the raw path does not end in it, resolved against
\* the importing directory; the candidate wins when it exists, then the
\* underscored file, and otherwise the candidate is returned as not found.
C7_ResolutionAsSpecified ==
    rv.out # <<>> =>
        rv.out[1] = ResolutionAsSpecified(rv.dirname, rv.raw, rv.accessible)

\* C8: when the expansion of the dedupe globs fails, the call fails: no
\* BundleResult is returned for the entry.
C8_GlobFailureIsRunLevel ==
    \A t \in Tasks : load[t].glob = "rejected" => results[t] = <<>>

\* C9: BundleAll's result array has one slot per input path, and the result
\* in slot i is the one of files[i], whatever the completion order.
C9_ResultsInInputOrder ==
    /\ DOMAIN results = 1..Len(files)
    /\ \A t \in Tasks :
         /\ pc[t] = "done" => results[t] # <<>>
         /\ results[t] # <<>> =>
               /\ Len(results[t]) = 1
               /\ results[t][1].filePath = Normalize(files[t], <<>>)

C9_Witness ==
    \E t1, t2 \in Tasks :
        /\ t1 < t2
        /\ files[t1] # files[t2]
        /\ results[t1] = <<>>
        /\ results[t2] # <<>>
        /\ results[t2][1].found

BundleRan(t) == load[t].read = "ok" /\ load[t].glob = "ok"

\* a commented-out directive: // directly followed by a single-quoted directive
CommentedAt(c, i) ==
    i >= 1 /\ i < Len(c) /\ c[i] = Slashes /\ c[i + 1].k = "import" /\ c[i + 1].q = "sq"

RECURSIVE KeepFrom(_, _)
KeepFrom(c, i) ==
    IF i > Len(c) THEN <<>>
    ELSE IF CommentedAt(c, i) \/ CommentedAt(c, i - 1) THEN KeepFrom(c, i + 1)
    ELSE <<c[i]>> \o KeepFrom(c, i + 1)

WithoutCommentedDirectives(c) == KeepFrom(c, 1)

LiveDirectives(c) ==
    {i \in 1..Len(c) : c[i].k = "import" /\ ~CommentedAt(c, i - 1)}

\* C11: bundling an entry without live directives returns found = true, an
\* empty imports list and the file's content less its commented-out
\* directives; commented-out directives are never resolved or reported: no
\* iteration of the import loop runs for them and a bundled entry has one
\* child node per live directive.
C11_NoDirectivesRoundTrip ==
    \A t \in Tasks :
        (pc[t] = "done" /\ BundleRan(t)) =>
            LET raw == fs[files[t]].content IN
            /\ results[t][1].found =>
                  Len(results[t][1].imports[1]) = Cardinality(LiveDirectives(raw))
            /\ LiveDirectives(raw) = {} =>
                  /\ results[t] = <<BundledResult(Normalize(files[t], <<>>),
                                                  WithoutCommentedDirectives(raw), <<>>)>>
                  /\ \A i \in DOMAIN hist :
                        ~(hist[i].t = t /\ hist[i].file = Normalize(files[t], <<>>))

C11_Witness ==
    \E t \in Tasks :
        /\ pc[t] = "done" /\ BundleRan(t)
        /\ LiveDirectives(fs[files[t]].content) = {}
        /\ \E i \in 1..Len(fs[files[t]].content) : CommentedAt(fs[files[t]].content, i)
        /\ results[t][1].found
        /\ results[t][1].imports = << <<>> >>
\* one Bundle call on a fresh Bundler with every file system operation
\* completing at once: the result as a function of the file system, the
\* entry and the expanded globs
FreshCtx ==
    [stack |-> <<>>, reg |-> <<>>, used |-> <<>>, ibf |-> <<>>, reads |-> <<>>,
     calls |-> <<>>, hist |-> <<>>, out |-> <<>>]

RECURSIVE RunToEnd(_, _, _)
RunToEnd(s, file, df) ==
    IF s.out # <<>> \/ s.stack = <<>> THEN s
    ELSE LET f == Top(s.stack) IN
         IF f.st = "resolving"
         THEN RunToEnd([s EXCEPT !.stack = SetTop(@, [f EXCEPT !.imports = ResolveAll(f, DOMAIN fs),
                                                              !.st = "loop"])], file, df)
         ELSE IF f.st = "reading"
         THEN LET imp == f.imports[f.i] IN
              IF fs[imp.fullPath].readable
              THEN RunToEnd(Enter([s EXCEPT !.stack = SetTop(@, [f EXCEPT !.st = "bundling"])],
                                  imp.fullPath, fs[imp.fullPath].content), file, df)
              ELSE [s EXCEPT !.out = <<NotFoundResult(file)>>]
         ELSE RunToEnd(StepLoop(s, 1, df), file, df)

ResultOf(file, globsList) ==
    IF file \notin DOMAIN fs \/ ~fs[file].readable THEN NotFoundResult(file)
    ELSE RunToEnd(Enter(FreshCtx, file, fs[file].content), file,
                  ExpandGlobs(globsList, fs)).out[1]

\* C12: the result of one Bundle call on a fresh Bundler is determined by the
\* file system, the entry and the dedupe globs: whatever the order in which
\* the read and the glob expansion complete, the call returns the same node
\* tree and the same bundledContent (the glob expansion succeeding).
C12_SingleRunDeterministic ==
    (Len(files) = 1 /\ pc[1] = "done" /\ load[1].glob # "rejected") =>
        results[1] = <<ResultOf(files[1], dedupeGlobs)>>

C12_Witness ==
    /\ Len(files) = 1 /\ pc[1] = "done" /\ load[1].glob = "ok"
    /\ results[1][1].found
    /\ \E i \in DOMAIN results[1][1].imports[1] : results[1][1].imports[1][i].deduped
    /\ \E i \in DOMAIN results[1][1].imports[1] : ~results[1][1].imports[1][i].deduped
\* C13: at the end of a run the usage counter of every path is the number of
\* times the path was a found import target, a positive integer.
C13_UsageCounterCountsEncounters ==
    AllDone =>
        /\ \A p \in DOMAIN usedImports : usedImports[p] >= 1
        /\ \A i \in DOMAIN hist :
              hist[i].found =>
                 /\ hist[i].target \in DOMAIN usedImports
                 /\ usedImports[hist[i].target] = Encounters(hist[i].target)
\* C14: when bundle() returns for a path, as the entry of a Bundle call or as
\* an import target, the file registry entry of the path is the returned
\* bundledContent and the importsByFile entry is the returned imports list.
C14_CachesHoldReturnedResult ==
    [][/\ \A t \in Tasks :
            (results[t] = <<>> /\ results'[t] # <<>> /\ results'[t][1].found) =>
                LET r == results'[t][1] IN
                /\ r.filePath \in DOMAIN fileRegistry'
                /\ fileRegistry'[r.filePath] = r.bundledContent[1]
                /\ r.filePath \in DOMAIN importsByFile'
                /\ importsByFile'[r.filePath] = r.imports[1]
       /\ \A i \in (Len(hist) + 1)..Len(hist') :
            hist'[i].branch = "fresh" =>
                /\ fileRegistry'[hist'[i].target] = hist'[i].node.bundledContent[1]
                /\ importsByFile'[hist'[i].target] = hist'[i].node.imports[1]]_vars
\* the import graph of the file system
ImportEdges(p) ==
    IF p \notin DOMAIN fs THEN {}
    ELSE LET ms == GetAllMatches(StripCommented(fs[p].content))
             rs == {ResolveImport(PathDirname(p), RawNames[ms[j].v], DOMAIN fs) :
                        j \in 1..Len(ms)}
         IN  {r.fullPath : r \in {x \in rs : x.found}}

RECURSIVE ReachableFrom(_)
ReachableFrom(S) ==
    LET N == S \cup UNION {ImportEdges(p) : p \in S}
    IN  IF N = S THEN S ELSE ReachableFrom(N)

Cyclic(entry) ==
    \E q \in ReachableFrom({entry}) : q \in ReachableFrom(ImportEdges(q))

\* C15 as claimed: a Bundle call whose entry reaches an import cycle never
\* completes.
C15_CycleNeverCompletes ==
    \A t \in Tasks : (BundleRan(t) /\ Cyclic(files[t])) => pc[t] # "done"

\* C15 as amended: there is no cycle detection, but recursion is bounded: an
\* import of a file that the same call is bundling finds the seed of lines
\* 80-82, takes the cached branch and calls neither readFile nor bundle; no
\* path is twice among the activations of one call, a path is bundled at
\* most once per Bundle call, and a call that is not done can take a step.
C15_CycleIsCutByTheSeed ==
    /\ \A t \in Tasks :
         /\ \A i, j \in 1..Len(stack[t]) :
               stack[t][i].filePath = stack[t][j].filePath => i = j
         /\ pc[t] # "done" => CanStep(t)
    /\ \A p \in DOMAIN bundleCalls : bundleCalls[p] <= Len(files)
    /\ \A i \in DOMAIN hist :
         (hist[i].found /\ hist[i].target \in hist[i].active) =>
            /\ hist[i].branch = "cached"
            /\ hist[i].node.bundledContent = <<>>

C15_Witness ==
    \E t \in Tasks :
        /\ BundleRan(t) /\ Cyclic(files[t])
        /\ pc[t] = "done" /\ results[t][1].found
        /\ \E i \in DOMAIN hist :
              hist[i].t = t /\ hist[i].found /\ hist[i].target \in hist[i].active
\* the iterations of the import loop of call t for file p, in order
IterationsOf(t, p) ==
    LET Sel(e) == e.t = t /\ e.file = p IN SelectSeq(hist, Sel)

\* what an iteration substitutes for its directive
Substitution(e) == IF e.node.deduped THEN <<>> ELSE e.repl

\* content c with its j-th directive replaced by the j-th substitution
RECURSIVE SubstitutedInPlace(_, _)
SubstitutedInPlace(c, evs) ==
    IF c = <<>> THEN <<>>
    ELSE IF Head(c).k = "import" /\ evs # <<>>
    THEN Substitution(Head(evs)) \o SubstitutedInPlace(Tail(c), Tail(evs))
    ELSE <<Head(c)>> \o SubstitutedInPlace(Tail(c), evs)

HasRepeatedDirective(c) ==
    \E i, j \in 1..Len(c) : i < j /\ c[i].k = "import" /\ c[i] = c[j]

\* C16: when a directive text occurs more than once in the entry file, every
\* occurrence is substituted at its own position, in source order: the
\* bundled content is the content with the i-th directive replaced by the
\* i-th substitution.
C16_RepeatedDirectiveInPlace ==
    \A t \in Tasks :
        (pc[t] = "done" /\ BundleRan(t) /\ results[t][1].found) =>
            LET c0 == WithoutCommentedDirectives(fs[files[t]].content) IN
            HasRepeatedDirective(c0) =>
                results[t][1].bundledContent[1] =
                    SubstitutedInPlace(c0, IterationsOf(t, Normalize(files[t], <<>>)))
ChildrenOf(node) == IF node.imports = <<>> THEN <<>> ELSE node.imports[1]

RECURSIVE AllFound(_)
AllFound(node) ==
    /\ node.found
    /\ \A i \in DOMAIN ChildrenOf(node) : AllFound(ChildrenOf(node)[i])

HasDirectiveText(c) == \E i \in 1..Len(c) : c[i].k = "import"

RECURSIVE NodeInvariant(_)
NodeInvariant(node) ==
    /\ ~node.found => (node.bundledContent = <<>> /\ node.imports = <<>>)
    /\ (node.found /\ node.bundledContent # <<>> /\ AllFound(node)) =>
          ~HasDirectiveText(node.bundledContent[1])
    /\ \A i \in DOMAIN ChildrenOf(node) : NodeInvariant(ChildrenOf(node)[i])

\* C17: in every returned node tree, a node that is not found has neither
\* content nor imports, and the bundled content of a found node whose subtree
\* is found throughout contains no directive text.
C17_NodeInvariant ==
    \A t \in Tasks : results[t] # <<>> => NodeInvariant(results[t][1])
\* C18: an import whose target is not found leaves the usage counter, the
\* file registry and the child-import cache without an entry for the target
\* path, and its node is never marked deduped.
C18_NotFoundLeavesNoTrace ==
    \A i \in DOMAIN hist :
        ~hist[i].found =>
            /\ hist[i].branch = "notfound"
            /\ ~hist[i].node.deduped
            /\ hist[i].target \notin DOMAIN usedImports
            /\ hist[i].target \notin DOMAIN fileRegistry
            /\ hist[i].target \notin DOMAIN importsByFile

C18_Witness ==
    /\ AllDone
    /\ dedupeGlobs # <<>>
    /\ usedImports # <<>>
    /\ \E i \in DOMAIN hist : ~hist[i].found /\ hist[i].node = NotFoundResult(hist[i].target)
\* C19: in a single Bundle call on a fresh Bundler every path is read at most
\* once and passed to bundle() at most once, however often it is imported.
C19_SingleCallReadsOnce ==
    Len(files) = 1 =>
        /\ \A p \in DOMAIN reads : reads[p] <= 1
        /\ \A p \in DOMAIN bundleCalls : bundleCalls[p] <= 1

C19_Witness ==
    /\ Len(files) = 1 /\ pc[1] = "done" /\ results[1][1].found
    /\ \E p \in DOMAIN reads :
          /\ Encounters(p) >= 2
          /\ reads[p] = 1
          /\ Count(bundleCalls, p) = 1
    /\ \E i \in DOMAIN hist : hist[i].target = Normalize(files[1], <<>>) /\ hist[i].found
====
